---- MODULE Spec2Model ----
(***************************************************************************)
(* Model of the crab-pot command line client (src/api/main.py), its        *)
(* transport wrapper (src/api/client.py) and the earlier entry point       *)
(* (src/api/python-mig/main.py).                                           *)
(*                                                                         *)
(* Conventions.  A Python value that may be None is a sequence: <<>> is    *)
(* None and <<v>> is the value v.  A Python str that the code slices       *)
(* (identifiers, descriptions, serialized payloads) is a sequence of       *)
(* one-character strings; a str that the code only passes on (names,       *)
(* versions, timestamps) is a TLA+ string.  A Python dict is a sequence of *)
(* <<key, value>> pairs in insertion order.                                *)
(***************************************************************************)
EXTENDS Integers, Sequences, FiniteSets, TLC

VARIABLES
    cmd,          \* the command typer dispatched to
    args,         \* its parsed options and arguments
    pc,           \* "start", "waiting" (client.get is blocking) or "exited"
    requests,     \* HTTP requests the module-level client has issued
    request,      \* the request in flight or last issued, <<>> when none
    response,     \* the answer the handler received, <<>> when none
    out,          \* what the console printed, in order
    exit_code,    \* the process's exit code once pc = "exited"
    tables,       \* rich Table objects constructed so far
    client_open,  \* the module-level httpx.Client has not been closed
    w_pc,         \* APIClient: "idle", "inflight" or "closed"
    w_call,       \* APIClient: the call in progress or last finished, <<>> when none
    w_calls,      \* APIClient: calls made so far
    w_requests,   \* APIClient: requests issued by the wrapped httpx.Client
    w_trace,      \* APIClient: what its calls did, in order
    fn_in,        \* pure functions: the drawn input
    fn_out        \* pure functions: <<>> or the result

vars == <<cmd, args, pc, requests, request, response, out, exit_code, tables, client_open,
          w_pc, w_call, w_calls, w_requests, w_trace, fn_in, fn_out>>

cliVars == <<cmd, args, pc, requests, request, response, out, exit_code, tables, client_open>>
wrapVars == <<w_pc, w_call, w_calls, w_requests, w_trace>>
fnVars == <<fn_in, fn_out>>

----------------------------------------------------------------------------
(* Bounds of the model. *)

\* most entries in a "schemas" or "logs" array of a response
MaxItems == 2
\* longest description or serialized payload drawn
MaxTextLen == 53
\* most keys in a drawn property object
MaxKeys == 3
\* most calls made on one APIClient
MaxCalls == 2

(* Program constants. *)

PreviewLen == 50
IdPrefixLen == 8
UuidLen == 36
DefaultLimit == 10

----------------------------------------------------------------------------
(* Python helpers. *)

Range(s) == {s[i] : i \in 1..Len(s)}

\* s[:n]
Prefix(s, n) == SubSeq(s, 1, IF Len(s) < n THEN Len(s) ELSE n)

\* sep.join(parts), parts a sequence of token sequences
RECURSIVE Join(_, _)
Join(parts, sep) ==
    IF parts = <<>> THEN <<>>
    ELSE IF Len(parts) = 1 THEN parts[1]
    ELSE parts[1] \o sep \o Join(Tail(parts), sep)

\* bool(x) of an optional str: None and "" are falsy
TruthyStr(o) == o /= <<>> /\ o[1] /= ""

\* bool(x) of an optional uuid.UUID: the class defines neither __bool__ nor __len__
TruthyUuid(o) == o /= <<>>

\* the three-character marker the code appends
Ellipsis == <<".", ".", ".">>

\* a text of n characters
Text(n) == [i \in 1..n |-> IF i % 2 = 1 THEN "x" ELSE "y"]

\* key in d, d[key]
Has(d, key) == \E i \in 1..Len(d) : d[i][1] = key
Get(d, key) == d[CHOOSE i \in 1..Len(d) : d[i][1] = key][2]

\* d.get(key, default)
GetOr(d, key, default) == IF Has(d, key) THEN Get(d, key) ELSE default

----------------------------------------------------------------------------
(* Constraint rendering of `schemas get`: src/api/main.py lines 185-208.   *)
(* A property object is a dict; every value is a sequence of tokens, a     *)
(* scalar being a sequence of one.                                         *)

\* the keys the renderer looks for, in the order of its if statements
Vocabulary == <<"enum", "pattern", "minLength", "maxLength", "minimum", "maximum", "format">>

\* f"{label}: {value}"
Line(label, value) == <<label, ": ">> \o value

\* ", ".join(str(v) for v in field_props["enum"])
EnumValues(field_props) ==
    Join([i \in 1..Len(Get(field_props, "enum")) |-> <<Get(field_props, "enum")[i]>>], <<", ">>)

\* a renderer that walks the property object's own keys instead
ConstraintsInKeyOrder(field_props) ==
    LET vocab == Range(Vocabulary)
        idx == SelectSeq([i \in 1..Len(field_props) |-> i],
                         LAMBDA i : field_props[i][1] \in vocab)
    IN  [n \in 1..Len(idx) |->
            LET k == field_props[idx[n]][1]
                v == field_props[idx[n]][2]
            IN  IF k = "enum"
                THEN Line("enum", <<"[">> \o EnumValues(field_props) \o <<"]">>)
                ELSE Line(IF k = "minimum" THEN "min" ELSE IF k = "maximum" THEN "max" ELSE k, v)]

\* the list `constraints` after the seven if statements
Constraints(field_props) ==
    (IF Has(field_props, "enum")
        THEN <<Line("enum", <<"[">> \o EnumValues(field_props) \o <<"]">>)>> ELSE <<>>)
    \o (IF Has(field_props, "pattern")
        THEN <<Line("pattern", Get(field_props, "pattern"))>> ELSE <<>>)
    \o (IF Has(field_props, "minLength")
        THEN <<Line("minLength", Get(field_props, "minLength"))>> ELSE <<>>)
    \o (IF Has(field_props, "maxLength")
        THEN <<Line("maxLength", Get(field_props, "maxLength"))>> ELSE <<>>)
    \o (IF Has(field_props, "minimum")
        THEN <<Line("min", Get(field_props, "minimum"))>> ELSE <<>>)
    \o (IF Has(field_props, "maximum")
        THEN <<Line("max", Get(field_props, "maximum"))>> ELSE <<>>)
    \o (IF Has(field_props, "format")
        THEN <<Line("format", Get(field_props, "format"))>> ELSE <<>>)

\* constraints_str = "\n".join(constraints) if constraints else ""
ConstraintsStr(field_props) ==
    IF Constraints(field_props) /= <<>> THEN Join(Constraints(field_props), <<"\n">>) ELSE <<>>

\* one row of def_table; "yes" stands for the check mark of line 187
FieldRow(field_name, field_props, required_fields) ==
    [field |-> field_name,
     type |-> GetOr(field_props, "type", <<"N/A">>),
     required |-> IF field_name \in Range(required_fields) THEN "yes" ELSE "",
     constraints |-> ConstraintsStr(field_props)]

\* the rows of def_table, one per property in the dict's own order
DefTableRows(schema_definition) ==
    LET properties == GetOr(schema_definition, "properties", <<>>)
        required_fields == GetOr(schema_definition, "required", <<>>)
    IN  [i \in 1..Len(properties) |->
            FieldRow(properties[i][1], properties[i][2], required_fields)]

----------------------------------------------------------------------------
(* Domain models: src/api/main.py lines 30-88.  A payload is the dict      *)
(* decoded from the response; a model is what pydantic keeps of it.        *)

\* the hyphen positions of a canonical UUID string
UuidHyphens == {9, 14, 19, 24}

\* the text of a UUID as a server may send it: hex digits in either case
UuidText(seed, upper) ==
    [i \in 1..UuidLen |->
        IF i \in UuidHyphens THEN "-"
        ELSE IF i % 2 = seed % 2 THEN (IF upper THEN "A" ELSE "a")
        ELSE IF i % 3 = seed % 3 THEN (IF upper THEN "F" ELSE "f")
        ELSE "1"]

\* str(uuid.UUID(text)): the canonical form is lower case
CanonicalUuid(text) ==
    [i \in 1..Len(text) |->
        IF text[i] = "A" THEN "a" ELSE IF text[i] = "F" THEN "f" ELSE text[i]]

\* a timestamp as ISO 8601 text, tokens <<date, "T", time>>, and datetime's parse of it
ParseTime(iso) == [date |-> iso[1], time |-> iso[3]]
\* datetime serialized by model_dump(mode="json")
IsoFormat(dt) == <<dt.date, "T", dt.time>>
\* strftime("%Y-%m-%d %H:%M:%S")
StrfTime(dt) == <<dt.date, " ", dt.time>>

SchemaFields == {"id", "name", "version", "description", "schema_definition",
                 "created_at", "updated_at"}
LogFields == {"id", "schema_id", "log_data", "created_at"}

\* Schema.model_validate(data): unknown keys are dropped, description defaults to None
SchemaValidate(data) ==
    [id |-> CanonicalUuid(data.id),
     name |-> data.name,
     version |-> data.version,
     description |-> IF "description" \in DOMAIN data THEN data.description ELSE <<>>,
     schema_definition |-> data.schema_definition,
     created_at |-> ParseTime(data.created_at),
     updated_at |-> ParseTime(data.updated_at)]

\* a dump that keeps the short identifier and the description preview of the table
SchemaDumpAsRow(schema) ==
    [id |-> Prefix(schema.id, IdPrefixLen) \o Ellipsis,
     name |-> schema.name,
     version |-> schema.version,
     description |-> IF schema.description = <<>> THEN <<>>
                     ELSE <<Prefix(schema.description[1], PreviewLen)>>,
     schema_definition |-> schema.schema_definition,
     created_at |-> IsoFormat(schema.created_at),
     updated_at |-> IsoFormat(schema.updated_at)]

\* schema.model_dump(mode="json")
SchemaDump(schema) ==
    [id |-> schema.id,
     name |-> schema.name,
     version |-> schema.version,
     description |-> schema.description,
     schema_definition |-> schema.schema_definition,
     created_at |-> IsoFormat(schema.created_at),
     updated_at |-> IsoFormat(schema.updated_at)]

\* (self.description or "")[:50]
DescriptionPreview(description) ==
    Prefix(IF description = <<>> THEN <<>> ELSE description[1], PreviewLen)

\* str(self.id) if full_id else str(self.id)[:8] + "..."
IdColumn(id, full_id) == IF full_id THEN id ELSE Prefix(id, IdPrefixLen) \o Ellipsis

\* Schema.to_table_row
SchemaToTableRow(schema, full_id) ==
    <<IdColumn(schema.id, full_id), schema.name, schema.version,
      DescriptionPreview(schema.description)>>

\* Log.model_validate(data); log_data is kept as the text str() gives of it
LogValidate(data) ==
    [id |-> data.id,
     schema_id |-> CanonicalUuid(data.schema_id),
     log_data |-> data.log_data,
     created_at |-> ParseTime(data.created_at)]

\* log.model_dump(mode="json")
LogDump(log) ==
    [id |-> log.id,
     schema_id |-> log.schema_id,
     log_data |-> log.log_data,
     created_at |-> IsoFormat(log.created_at)]

\* data_preview of Log.to_table_row
DataPreview(log_data) ==
    IF Len(log_data) > PreviewLen THEN Prefix(log_data, PreviewLen) \o Ellipsis ELSE log_data

\* Log.to_table_row
LogToTableRow(log, full_id) ==
    <<log.id, IdColumn(log.schema_id, full_id), StrfTime(log.created_at),
      DataPreview(log.log_data)>>

\* Log.to_table_row_expanded: the payload pretty-printed whole
LogToTableRowExpanded(log, full_id) ==
    <<log.id, IdColumn(log.schema_id, full_id), StrfTime(log.created_at),
      <<"json.dumps(indent=2)">> \o log.log_data>>

\* the row python-mig's list_schemas builds from the raw dict
MigSchemaRow(schema, full) ==
    <<IF full THEN schema.id ELSE Prefix(schema.id, IdPrefixLen) \o Ellipsis,
      schema.name, schema.version,
      Prefix(IF "description" \in DOMAIN schema THEN schema.description[1] ELSE <<>>,
             PreviewLen)>>

----------------------------------------------------------------------------
(* What the registry service may answer.  Payloads follow the response     *)
(* shapes of the service's contract: every entry validates as its model.   *)

TimeA == <<"2024-01-02", "T", "03:04:05">>
TimeB == <<"2024-05-06", "T", "07:08:09">>

\* a schema_definition whose properties declare their keys out of vocabulary order
DefinitionA ==
    << <<"properties",
         << <<"qty", << <<"maximum", <<"10">>>>, <<"type", <<"integer">>>>,
                        <<"minLength", <<"3">>>> >> >>,
            <<"status", << <<"enum", <<"new", "paid">>>> >> >>,
            <<"note", <<>> >> >> >>,
       <<"required", <<"qty">> >> >>

\* a schema_definition with neither properties nor required
DefinitionB == <<>>

SchemaPayloads ==
    { [id |-> UuidText(1, TRUE), name |-> "orders", version |-> "2.0.0",
       description |-> <<Text(MaxTextLen)>>, schema_definition |-> DefinitionA,
       created_at |-> TimeA, updated_at |-> TimeB, owner |-> "ops"],
      [id |-> UuidText(2, FALSE), name |-> "orders", version |-> "1.0.0",
       schema_definition |-> DefinitionB,
       created_at |-> TimeA, updated_at |-> TimeA] }

LogPayloads ==
    { [id |-> "7", schema_id |-> UuidText(1, TRUE), log_data |-> Text(MaxTextLen),
       created_at |-> TimeB, trace |-> "t"],
      [id |-> "6", schema_id |-> UuidText(2, FALSE), log_data |-> Text(2),
       created_at |-> TimeA] }

\* the arrays of at most MaxItems entries over a set of payloads
Lists(payloads) == UNION {[1..n -> payloads] : n \in 0..MaxItems}

\* response.raise_for_status() passes
IsSuccess(status) == status >= 200 /\ status <= 299

\* a response that fails raise_for_status, or a request that never completed
Failures ==
    { [kind |-> "response", status |-> 404, body |-> <<>>],
      [kind |-> "response", status |-> 500, body |-> <<>>],
      [kind |-> "transport_error", status |-> 0, body |-> <<>>] }

Ok(body) == [kind |-> "response", status |-> 200, body |-> body]

\* what the service may answer to a request of the given endpoint
Responses(endpoint) ==
    Failures \cup
    CASE endpoint = "GET /schemas" ->
            {Ok(<<>>)} \cup {Ok(<< <<"schemas", l>> >>) : l \in Lists(SchemaPayloads)}
      [] endpoint = "GET /schemas/{id}" ->
            {Ok(p) : p \in SchemaPayloads}
      [] endpoint = "GET /logs/schema/{schema_name}" ->
            {Ok(<<>>)} \cup {Ok(<< <<"logs", l>> >>) : l \in Lists(LogPayloads)}

\* the exception the response raises in the caller: <<>> when none
RaisedBy(resp) ==
    IF resp.kind = "transport_error" THEN <<"RequestError">>
    ELSE IF ~IsSuccess(resp.status) THEN <<"HTTPStatusError">>
    ELSE <<>>

----------------------------------------------------------------------------
(* The commands of src/api/main.py.  A handler's result is what it printed, *)
(* the tables it built and the exit code the process ends with.            *)

Commands == {"schemas list", "schemas get", "logs list"}

Message(style, text) == [kind |-> "message", style |-> style, text |-> text]
Json(is_list, data) == [kind |-> "json", is_list |-> is_list, data |-> data]
TableOut(title, rows) == [kind |-> "table", title |-> title, rows |-> rows]

Result(printed, code, built) == [out |-> printed, exit_code |-> code, tables |-> built]

\* an exception no handler catches: the interpreter prints it and exits 1
Unhandled(error) == Result(<<[kind |-> "traceback", error |-> error]>>, 1, 0)

\* the options and arguments typer may pass
ArgSpace ==
    [schema_id : {<<>>, <<CanonicalUuid(UuidText(1, FALSE))>>},
     name : {<<>>, <<"">>, <<"orders">>},
     version : {<<>>, <<"">>, <<"1.0.0">>},
     schema_name : {<<>>, <<"">>, <<"orders">>},
     full : BOOLEAN, json_output : BOOLEAN, expand : BOOLEAN,
     limit : {1, DefaultLimit}]

\* the invocations of a command: only its own options vary
Invocations(c) ==
    {a \in ArgSpace :
        CASE c = "schemas list" ->
                /\ a.schema_id = <<>> /\ a.name = <<>> /\ a.version = <<>>
                /\ a.schema_name = <<>> /\ ~a.expand /\ a.limit = DefaultLimit
          [] c = "schemas get" ->
                /\ a.schema_name = <<>> /\ ~a.full /\ ~a.expand /\ a.limit = DefaultLimit
          [] c = "logs list" ->
                /\ a.schema_id = <<>> /\ a.name = <<>> /\ a.version = <<>>}

(* schemas list: lines 91-121 *)

\* the requests list_schemas issues
ListSchemasRequests(a) == <<[endpoint |-> "GET /schemas", params |-> <<>>]>>

\* lines 97-121, from raise_for_status on
ListSchemasAfter(a, resp) ==
    IF RaisedBy(resp) /= <<>> THEN Unhandled(RaisedBy(resp)[1])
    ELSE
    LET schemas_data == GetOr(resp.body, "schemas", <<>>)
        schemas == [i \in 1..Len(schemas_data) |-> SchemaValidate(schemas_data[i])]
    IN  IF schemas_data = <<>>
        THEN Result(<<Message("yellow", <<"No schemas found">>)>>, 0, 0)
        ELSE IF a.json_output
        THEN Result(<<Json(TRUE, [i \in 1..Len(schemas) |-> SchemaDump(schemas[i])])>>, 0, 0)
        ELSE Result(<<TableOut(<<"Schemas">>,
                        [i \in 1..Len(schemas) |-> SchemaToTableRow(schemas[i], a.full)])>>,
                    0, 1)

(* schemas get: lines 124-224 *)

\* which arm of lines 133-169 runs
GetSchemaBranch(a) ==
    IF TruthyUuid(a.schema_id) /\ TruthyStr(a.name) THEN "both"
    ELSE IF TruthyUuid(a.schema_id) THEN "id"
    ELSE IF TruthyStr(a.name) THEN "name"
    ELSE "neither"

\* params of the list query: the name, and the version when it is truthy
NameParams(a) ==
    << <<"name", a.name[1]>> >>
    \o (IF TruthyStr(a.version) THEN << <<"version", a.version[1]>> >> ELSE <<>>)

\* a name lookup that lists, then fetches the first match by id
GetSchemaRequestsListThenFetch(a) ==
    CASE GetSchemaBranch(a) = "id" ->
            <<[endpoint |-> "GET /schemas/{id}", params |-> << <<"id", a.schema_id[1]>> >>]>>
      [] GetSchemaBranch(a) = "name" ->
            <<[endpoint |-> "GET /schemas/{id}", params |-> <<>>],
              [endpoint |-> "GET /schemas", params |-> NameParams(a)]>>
      [] OTHER -> <<>>

\* the requests get_schema issues
GetSchemaRequests(a) ==
    CASE GetSchemaBranch(a) = "id" ->
            <<[endpoint |-> "GET /schemas/{id}", params |-> << <<"id", a.schema_id[1]>> >>]>>
      [] GetSchemaBranch(a) = "name" ->
            <<[endpoint |-> "GET /schemas", params |-> NameParams(a)]>>
      [] OTHER -> <<>>

\* what get_schema prints before any request, and the exit code if it stops there
GetSchemaBefore(a) ==
    CASE GetSchemaBranch(a) = "both" ->
            Result(<<Message("red", <<"Error: Cannot specify both --id and --name">>)>>, 1, 0)
      [] GetSchemaBranch(a) = "id" ->
            Result(IF TruthyStr(a.version)
                   THEN <<Message("yellow", <<"Warning: --version is ignored when using --id">>)>>
                   ELSE <<>>, 0, 0)
      [] GetSchemaBranch(a) = "name" -> Result(<<>>, 0, 0)
      [] OTHER ->
            Result(<<Message("red", <<"Error: Must specify either --id or --name">>)>>, 1, 0)

\* lines 171-224: the JSON dump, or the detail table with its nested def_table
GetSchemaRender(a, schema) ==
    IF a.json_output
    THEN Result(<<Json(FALSE, <<SchemaDump(schema)>>)>>, 0, 0)
    ELSE Result(<<TableOut(<<"Schema: ", schema.name>>,
                    << <<"ID", schema.id>>,
                       <<"Name", schema.name>>,
                       <<"Version", schema.version>>,
                       <<"Description",
                         IF schema.description = <<>> \/ schema.description = << <<>> >>
                         THEN <<"N", "/", "A">> ELSE schema.description[1]>>,
                       <<"Created At", StrfTime(schema.created_at)>>,
                       <<"Updated At", StrfTime(schema.updated_at)>>,
                       <<"Schema Definition", DefTableRows(schema.schema_definition)>> >>)>>,
                0, 2)

\* a lookup that displays the newest entry of the list instead
SelectLast(schemas_list) == schemas_list[Len(schemas_list)]

\* schemas_list[0]
SelectSchema(schemas_list) == schemas_list[1]

\* the message of lines 156-158
NotFoundMessage(a) ==
    Message("yellow",
        <<"No schema found with name '", a.name[1], "'">>
        \o (IF TruthyStr(a.version) THEN <<" and version ", a.version[1]>> ELSE <<>>))

\* the message of lines 164-166
AmbiguityWarning(schemas_list) ==
    Message("yellow",
        <<"Warning: Found ", ToString(Len(schemas_list)), " schemas, displaying the first one">>)

\* lines 143-144 and 150-224, from raise_for_status on
GetSchemaAfter(a, resp) ==
    IF RaisedBy(resp) /= <<>> THEN Unhandled(RaisedBy(resp)[1])
    ELSE IF GetSchemaBranch(a) = "id"
    THEN GetSchemaRender(a, SchemaValidate(resp.body))
    ELSE
    LET schemas_list == GetOr(resp.body, "schemas", <<>>)
    IN  IF schemas_list = <<>>
        THEN Result(<<NotFoundMessage(a)>>, 1, 0)
        ELSE
        LET schema == SchemaValidate(SelectSchema(schemas_list))
            warned == IF Len(schemas_list) > 1 THEN <<AmbiguityWarning(schemas_list)>> ELSE <<>>
            shown == GetSchemaRender(a, schema)
        IN  Result(warned \o shown.out, shown.exit_code, shown.tables)

(* logs list: lines 227-278 *)

\* the requests list_logs issues
ListLogsRequests(a) ==
    IF ~TruthyStr(a.schema_name) THEN <<>>
    ELSE <<[endpoint |-> "GET /logs/schema/{schema_name}",
            params |-> << <<"schema_name", a.schema_name[1]>>, <<"limit", a.limit>> >>]>>

\* lines 239-241
ListLogsBefore(a) ==
    IF ~TruthyStr(a.schema_name)
    THEN Result(<<Message("red", <<"Error: schema_name is required">>)>>, 1, 0)
    ELSE Result(<<>>, 0, 0)

\* lines 248-274: the try block once the response passed raise_for_status
ListLogsTry(a, resp) ==
    LET logs_data == GetOr(resp.body, "logs", <<>>)
        logs == [i \in 1..Len(logs_data) |-> LogValidate(logs_data[i])]
    IN  IF logs_data = <<>>
        THEN Result(<<Message("yellow",
                        <<"No logs found for schema '", a.schema_name[1], "'">>)>>, 0, 0)
        ELSE IF a.json_output
        THEN Result(<<Json(TRUE, [i \in 1..Len(logs) |-> LogDump(logs[i])])>>, 0, 0)
        ELSE Result(<<TableOut(<<"Logs for Schema: ", a.schema_name[1]>>,
                        [i \in 1..Len(logs) |->
                            IF a.expand THEN LogToTableRowExpanded(logs[i], a.full)
                            ELSE LogToTableRow(logs[i], a.full)])>>,
                    0, 1)

\* an except clause that reports the failure and returns
ListLogsExceptReturns(a, error) ==
    Result(<<Message("red", <<"Error fetching logs: ", error>>)>>, 0, 0)

\* lines 276-278: except httpx.HTTPError
ListLogsExcept(a, error) ==
    Result(<<Message("red", <<"Error fetching logs: ", error>>)>>, 1, 0)

\* lines 243-278, from raise_for_status on
ListLogsAfter(a, resp) ==
    IF RaisedBy(resp) /= <<>> THEN ListLogsExcept(a, RaisedBy(resp)[1])
    ELSE ListLogsTry(a, resp)

----------------------------------------------------------------------------
(* One run of the command line program. *)

CliIdle ==
    /\ cmd = "none" /\ args = <<>> /\ pc = "exited" /\ requests = 0 /\ request = <<>>
    /\ response = <<>> /\ out = <<>> /\ exit_code = 0 /\ tables = 0 /\ client_open = FALSE

WrapIdle ==
    /\ w_pc = "closed" /\ w_call = <<>> /\ w_calls = 0 /\ w_requests = 0 /\ w_trace = <<>>

FnIdle == fn_in = <<>> /\ fn_out = <<>>

\* the module is imported (the client is built, lines 17-20) and typer has parsed argv
InitCli ==
    /\ cmd \in Commands
    /\ args \in Invocations(cmd)
    /\ pc = "start"
    /\ requests = 0
    /\ request = <<>>
    /\ response = <<>>
    /\ out = <<>>
    /\ exit_code = 0
    /\ tables = 0
    /\ client_open = TRUE
    /\ WrapIdle
    /\ FnIdle

\* a handler runs up to its client.get call, or to the typer.Exit before it
Begin(before, reqs) ==
    /\ pc = "start"
    /\ out' = out \o before.out
    /\ requests' = requests + Len(reqs)
    /\ request' = IF reqs = <<>> THEN <<>> ELSE <<reqs[Len(reqs)]>>
    /\ pc' = IF reqs = <<>> THEN "exited" ELSE "waiting"
    /\ exit_code' = IF reqs = <<>> THEN before.exit_code ELSE exit_code
    /\ UNCHANGED <<cmd, args, response, tables, client_open>>
    /\ UNCHANGED <<wrapVars, fnVars>>

\* client.get returns or raises, and the handler runs to the end of the process
Finish(resp, result) ==
    /\ pc = "waiting"
    /\ response' = <<resp>>
    /\ out' = out \o result.out
    /\ tables' = tables + result.tables
    /\ exit_code' = result.exit_code
    /\ pc' = "exited"
    /\ UNCHANGED <<cmd, args, requests, request, client_open>>
    /\ UNCHANGED <<wrapVars, fnVars>>

ListSchemasStart ==
    /\ cmd = "schemas list"
    /\ Begin(Result(<<>>, 0, 0), ListSchemasRequests(args))

ListSchemasReturn ==
    /\ cmd = "schemas list"
    /\ \E resp \in Responses("GET /schemas") : Finish(resp, ListSchemasAfter(args, resp))

GetSchemaStart ==
    /\ cmd = "schemas get"
    /\ Begin(GetSchemaBefore(args), GetSchemaRequests(args))

GetSchemaReturn ==
    /\ cmd = "schemas get"
    /\ pc = "waiting"
    /\ \E resp \in Responses(request[1].endpoint) : Finish(resp, GetSchemaAfter(args, resp))

ListLogsStart ==
    /\ cmd = "logs list"
    /\ Begin(ListLogsBefore(args), ListLogsRequests(args))

ListLogsReturn ==
    /\ cmd = "logs list"
    /\ \E resp \in Responses("GET /logs/schema/{schema_name}") :
            Finish(resp, ListLogsAfter(args, resp))

Next ==
    \/ ListSchemasStart
    \/ ListSchemasReturn
    \/ GetSchemaStart
    \/ GetSchemaReturn
    \/ ListLogsStart
    \/ ListLogsReturn

Spec == InitCli /\ [][Next]_vars

----------------------------------------------------------------------------
(* Properties of a run of the command line program. *)

Exited == pc = "exited"
Received == response /= <<>>
Fetched == Received /\ RaisedBy(response[1]) = <<>>
Failed == Received /\ RaisedBy(response[1]) /= <<>>

\* the events of a kind among what was printed
Printed(kind) == {i \in 1..Len(out) : out[i].kind = kind}

\* the message at position i of the output contains the text t
Says(i, t) == out[i].kind = "message" /\ (t = "" \/ t \in Range(out[i].text))

UsageError == Message("red", <<"Error: Cannot specify both --id and --name">>)

\* C1: whenever `schemas get` is given both --id and --name, no request is ever
\* issued, and the process ends with exit code 1 having printed the usage error only.
C1_BothSelectorsRejected ==
    (cmd = "schemas get" /\ args.schema_id /= <<>> /\ args.name /= <<>>)
        => /\ requests = 0
           /\ Exited => (exit_code = 1 /\ out = <<UsageError>>)

\* the array the list query returned
Matches == GetOr(response[1].body, "schemas", <<>>)

\* the identifier and version the command displayed, <<>> when it displayed no schema
Displayed ==
    IF Printed("json") /= {}
    THEN LET e == out[CHOOSE i \in Printed("json") : TRUE].data[1]
         IN  <<e.id, e.version>>
    ELSE IF Printed("table") /= {}
    THEN LET t == out[CHOOSE i \in Printed("table") : TRUE]
         IN  <<t.rows[1][2], t.rows[3][2]>>
    ELSE <<>>

Warnings == {i \in 1..Len(out) : Says(i, "Warning: Found ")}

\* C2: after `schemas get --name N [--version V]` whose list query succeeded: with
\* no match the exit code is 1, the only output is a message naming N (and V) and
\* no schema is displayed; with k >= 2 matches the exit code is 0, the schema
\* displayed is the first of the array and one warning states k; with one match
\* there is no warning.
C2_NameLookup ==
    (cmd = "schemas get" /\ Exited /\ Fetched /\ request[1].endpoint = "GET /schemas")
        => /\ Len(Matches) = 0 =>
                /\ exit_code = 1
                /\ Len(out) = 1
                /\ Says(1, args.name[1])
                /\ args.version /= <<>> => Says(1, args.version[1])
                /\ Displayed = <<>>
           /\ Len(Matches) >= 1 =>
                /\ exit_code = 0
                /\ Displayed = <<CanonicalUuid(Matches[1].id), Matches[1].version>>
                /\ Cardinality(Printed("json") \cup Printed("table")) = 1
           /\ Len(Matches) >= 2 =>
                /\ Cardinality(Warnings) = 1
                /\ \A i \in Warnings : Says(i, ToString(Len(Matches)))
           /\ Len(Matches) = 1 => Warnings = {}

\* two matches came back in an order that tells the first from the last
C2_Witness ==
    /\ cmd = "schemas get" /\ Exited /\ Fetched /\ request[1].endpoint = "GET /schemas"
    /\ Len(Matches) = 2 /\ Matches[1].id /= Matches[2].id
    /\ Warnings /= {} /\ Displayed /= <<>>

\* C3: a run issues at most one HTTP request, whatever the command, its flags
\* and the answer; once an answer has come, no further request is issued.
C3_AtMostOneRequest ==
    /\ requests <= 1
    /\ Received => (Exited /\ requests = 1)

\* a request failed and the process ended having issued just that one
C3_Witness == Exited /\ Failed /\ requests = 1

\* the payloads behind the entities a JSON output carries
Sources ==
    CASE cmd = "schemas list" -> GetOr(response[1].body, "schemas", <<>>)
      [] cmd = "logs list" -> GetOr(response[1].body, "logs", <<>>)
      [] cmd = "schemas get" ->
            IF request[1].endpoint = "GET /schemas" THEN <<Matches[1]>>
            ELSE <<response[1].body>>

\* entity e is the lossless dump of payload p: the model's fields and no other, the
\* identifier whole and canonical, the description and the payload uncut
Lossless(e, p) ==
    IF cmd = "logs list"
    THEN /\ DOMAIN e = LogFields
         /\ e.id = p.id
         /\ e.schema_id = CanonicalUuid(p.schema_id) /\ Len(e.schema_id) = UuidLen
         /\ e.log_data = p.log_data
         /\ e.created_at = p.created_at
    ELSE /\ DOMAIN e = SchemaFields
         /\ e.id = CanonicalUuid(p.id) /\ Len(e.id) = UuidLen
         /\ e.name = p.name /\ e.version = p.version
         /\ e.description = (IF "description" \in DOMAIN p THEN p.description ELSE <<>>)
         /\ e.schema_definition = p.schema_definition
         /\ e.created_at = p.created_at /\ e.updated_at = p.updated_at

C8_LogsExitContract ==
    (cmd = "logs list" /\ Exited)
        => /\ Failed =>
                /\ exit_code = 1
                /\ out /= <<>>
                /\ \A i \in 1..Len(out) : out[i].kind = "message" /\ out[i].style = "red"
           /\ (Fetched /\ Sources = <<>>) =>
                /\ exit_code = 0
                /\ Len(out) = 1
                /\ Says(1, "No logs found for schema '") /\ Says(1, args.schema_name[1])
           /\ (Printed("table") \cup Printed("json") /= {}) =>
                (Fetched /\ Len(Sources) >= 1 /\ exit_code = 0)

\* the fetch of a named schema's logs failed
C8_Witness == cmd = "logs list" /\ Exited /\ Failed /\ exit_code = 1 /\ Len(out) = 1

\* C10: when the process exits, the HTTP client built at startup has been closed.
C10_ClientClosedAtExit == (cmd /= "none" /\ Exited) => ~client_open

----------------------------------------------------------------------------
(* The rendering functions applied to drawn inputs. *)

\* the keys a property object may carry: the vocabulary and two the renderer skips
PropertyKeys == Range(Vocabulary) \cup {"type", "description"}

\* two values for each key, no token shared between keys
ValueOf(key, v) ==
    CASE key = "enum" -> IF v = 1 THEN <<"new", "paid">> ELSE <<"open">>
      [] key = "pattern" -> IF v = 1 THEN <<"^a$">> ELSE <<"^b$">>
      [] key = "minLength" -> IF v = 1 THEN <<"3">> ELSE <<"4">>
      [] key = "maxLength" -> IF v = 1 THEN <<"8">> ELSE <<"9">>
      [] key = "minimum" -> IF v = 1 THEN <<"0">> ELSE <<"-1">>
      [] key = "maximum" -> IF v = 1 THEN <<"10">> ELSE <<"11">>
      [] key = "format" -> IF v = 1 THEN <<"email">> ELSE <<"date">>
      [] key = "type" -> IF v = 1 THEN <<"string">> ELSE <<"integer">>
      [] key = "description" -> IF v = 1 THEN <<"d1">> ELSE <<"d2">>

\* the orders in which at most MaxKeys distinct keys may be declared
KeyOrders ==
    {s \in UNION {[1..n -> PropertyKeys] : n \in 0..MaxKeys} :
        \A i, j \in 1..Len(s) : i < j => s[i] /= s[j]}

PropertyObjects ==
    {[i \in 1..Len(s) |-> <<s[i], ValueOf(s[i], v)>>] : s \in KeyOrders, v \in 1..2}

\* a schema payload with the given description, or without the key
Described(d) ==
    IF ~d.key
    THEN [id |-> UuidText(2, FALSE), name |-> "orders", version |-> "1.0.0",
          schema_definition |-> DefinitionB, created_at |-> TimeA, updated_at |-> TimeA]
    ELSE [id |-> UuidText(1, TRUE), name |-> "orders", version |-> "2.0.0",
          description |-> d.value, schema_definition |-> DefinitionA,
          created_at |-> TimeA, updated_at |-> TimeB]

\* descriptions of every length up to MaxTextLen, and payloads without the key
Descriptions ==
    {[key |-> FALSE, value |-> <<>>]}
    \cup {[key |-> TRUE, value |-> <<Text(n)>>] : n \in 0..MaxTextLen}

\* "description": null, which Schema accepts (python-mig's slice of it raises TypeError)
NullDescription == [key |-> TRUE, value |-> <<>>]

RenderInputs ==
    {[fn |-> "constraints", arg |-> p] : p \in PropertyObjects}
    \cup {[fn |-> "Schema.to_table_row",
           arg |-> [schema |-> SchemaValidate(Described(d)), full |-> f]] :
                d \in Descriptions \cup {NullDescription}, f \in BOOLEAN}
    \cup {[fn |-> "python-mig row", arg |-> [schema |-> Described(d), full |-> f]] :
                d \in Descriptions, f \in BOOLEAN}

InitRender ==
    /\ fn_in \in RenderInputs
    /\ fn_out = <<>>
    /\ CliIdle
    /\ WrapIdle

\* one pass of the loop of lines 185-208 over a property
RenderField ==
    /\ fn_in.fn = "constraints" /\ fn_out = <<>>
    /\ fn_out' = <<FieldRow("field", fn_in.arg, <<"field">>)>>
    /\ UNCHANGED <<fn_in, cliVars, wrapVars>>

\* Schema.to_table_row, as list_schemas calls it at line 119
RenderSchemaRow ==
    /\ fn_in.fn = "Schema.to_table_row" /\ fn_out = <<>>
    /\ fn_out' = <<SchemaToTableRow(fn_in.arg.schema, fn_in.arg.full)>>
    /\ UNCHANGED <<fn_in, cliVars, wrapVars>>

\* the row python-mig's list_schemas adds at lines 43-50
RenderMigRow ==
    /\ fn_in.fn = "python-mig row" /\ fn_out = <<>>
    /\ fn_out' = <<MigSchemaRow(fn_in.arg.schema, fn_in.arg.full)>>
    /\ UNCHANGED <<fn_in, cliVars, wrapVars>>

NextRender ==
    \/ RenderField
    \/ RenderSchemaRow
    \/ RenderMigRow

SpecRender == InitRender /\ [][NextRender]_vars

----------------------------------------------------------------------------
(* Properties of the rendering functions. *)

RowRendered == fn_in /= <<>> /\ fn_in.fn /= "constraints" /\ fn_out /= <<>>
FieldRendered == fn_in /= <<>> /\ fn_in.fn = "constraints" /\ fn_out /= <<>>

\* the description of the schema a row was rendered from, "" when it has none
RowDescription ==
    IF "description" \in DOMAIN fn_in.arg.schema /\ fn_in.arg.schema.description /= <<>>
    THEN fn_in.arg.schema.description[1] ELSE <<>>

\* C5: the description column of a rendered schema row is the description itself when
\* it has at most 50 characters, and otherwise its first 50 characters followed by
\* the three-character ellipsis, 53 characters in all.
C5_DescriptionPreview ==
    RowRendered =>
        LET d == RowDescription
            preview == fn_out[1][4]
        IN  /\ Len(d) <= PreviewLen => preview = d
            /\ Len(d) > PreviewLen =>
                    /\ Len(preview) = PreviewLen + Len(Ellipsis)
                    /\ preview = SubSeq(d, 1, PreviewLen) \o Ellipsis

\* the lines of a rendered constraints string
RECURSIVE SplitLines(_)
SplitLines(text) ==
    IF text = <<>> THEN <<>>
    ELSE IF \E i \in 1..Len(text) : text[i] = "\n"
    THEN LET cut == CHOOSE i \in 1..Len(text) :
                        text[i] = "\n" /\ \A j \in 1..(i - 1) : text[j] /= "\n"
         IN  <<SubSeq(text, 1, cut - 1)>> \o SplitLines(SubSeq(text, cut + 1, Len(text)))
    ELSE <<text>>

RenderedLines == SplitLines(fn_out[1].constraints)

\* the vocabulary keys the drawn property object carries, in vocabulary order
PresentKeys == SelectSeq(Vocabulary, LAMBDA k : Has(fn_in.arg, k))

\* the same keys and values declared in another order
Reorderings ==
    {q \in [1..Len(fn_in.arg) -> Range(fn_in.arg)] : Range(q) = Range(fn_in.arg)}

\* C6: the constraints string of a property does not depend on the order in which
\* the property declares its keys; its lines are those of the vocabulary keys present,
\* in the order enum, pattern, minLength, maxLength, minimum, maximum, format; and it
\* is empty when none is present.
C6_FixedOrder ==
    FieldRendered =>
        /\ \A q \in Reorderings : ConstraintsStr(q) = fn_out[1].constraints
        /\ Len(RenderedLines) = Len(PresentKeys)
        /\ \A i \in 1..Len(RenderedLines) :
                Get(fn_in.arg, PresentKeys[i])[1] \in Range(RenderedLines[i])
        /\ PresentKeys = <<>> => fn_out[1].constraints = <<>>

\* a property declared maximum before minLength was rendered minLength line first
C6_Witness ==
    /\ FieldRendered
    /\ Len(fn_in.arg) >= 2 /\ fn_in.arg[1][1] = "maximum" /\ fn_in.arg[2][1] = "minLength"
    /\ Len(RenderedLines) = 2
    /\ RenderedLines[1][1] = "minLength"

\* what "key: value" reads for a key of the property: enum values comma-joined in brackets
Expected(key) ==
    <<key, ": ">> \o
    (IF key = "enum"
     THEN <<"[">> \o Join([i \in 1..Len(Get(fn_in.arg, key)) |-> <<Get(fn_in.arg, key)[i]>>],
                          <<", ">>) \o <<"]">>
     ELSE Get(fn_in.arg, key))

\* C7: for each vocabulary key the property carries, the constraints string has
\* exactly one line labelled with that key, reading "key: value"; a key it does not
\* carry labels no line.
C7_LabelIsKey ==
    FieldRendered =>
        \A n \in 1..Len(Vocabulary) :
            LET key == Vocabulary[n]
                labelled == {i \in 1..Len(RenderedLines) : RenderedLines[i][1] = key}
            IN  IF Has(fn_in.arg, key)
                THEN /\ Cardinality(labelled) = 1
                     /\ \A i \in labelled : RenderedLines[i] = Expected(key)
                ELSE labelled = {}

----------------------------------------------------------------------------
(* The transport wrapper: src/api/client.py.  The trace records, in order,  *)
(* each call, the request it issued, the diagnostic it printed and how it   *)
(* handed control back.                                                     *)

Methods == {"get", "post"}

\* what may become of a request: a response of some status, or no response at all
Answers ==
    {[kind |-> "response", status |-> c, body |-> <<"body">>] : c \in {200, 204, 301, 404, 500}}
    \cup {[kind |-> "transport_error", status |-> 0, body |-> <<c>>] :
                c \in {"timed out", "connection refused"}}

Event(ev, detail) == [ev |-> ev, detail |-> detail]

\* the mark each method's diagnostics begin with (lines 18, 21, 30, 33)
Mark(method) == IF method = "get" THEN "X" ELSE "(ballot x)"

\* a wrapper whose except clauses print the diagnostic and fall through
FinishCallSwallowing(method, answer) ==
    IF RaisedBy(answer) = <<"HTTPStatusError">>
    THEN <<Event("diagnostic", <<Mark(method), " HTTP ", ToString(answer.status), ": ">>
                                \o answer.body),
           Event("return", <<"None">>)>>
    ELSE IF RaisedBy(answer) = <<"RequestError">>
    THEN <<Event("diagnostic", <<Mark(method), " Request failed: ">> \o answer.body),
           Event("return", <<"None">>)>>
    ELSE <<Event("return", <<"response">>)>>

\* lines 14-22 and 26-34 once self.client.get / self.client.post has been called
FinishCall(method, answer) ==
    IF RaisedBy(answer) = <<"HTTPStatusError">>
    THEN <<Event("diagnostic", <<Mark(method), " HTTP ", ToString(answer.status), ": ">>
                                \o answer.body),
           Event("raise", <<"HTTPStatusError">>)>>
    ELSE IF RaisedBy(answer) = <<"RequestError">>
    THEN <<Event("diagnostic", <<Mark(method), " Request failed: ">> \o answer.body),
           Event("raise", <<"RequestError">>)>>
    ELSE <<Event("return", <<"response">>)>>

\* api_client = APIClient(): line 40
InitWrap ==
    /\ w_pc = "idle"
    /\ w_call = <<>>
    /\ w_calls = 0
    /\ w_requests = 0
    /\ w_trace = <<>>
    /\ CliIdle
    /\ FnIdle

\* a caller enters get or post, which hands one request to the httpx client
Call(method) ==
    /\ w_pc = "idle"
    /\ w_calls < MaxCalls
    /\ w_pc' = "inflight"
    /\ w_calls' = w_calls + 1
    /\ w_requests' = w_requests + 1
    /\ w_call' = <<[method |-> method, answer |-> <<>>]>>
    /\ w_trace' = w_trace \o <<Event("call", <<method>>), Event("request", <<method>>)>>
    /\ UNCHANGED <<cliVars, fnVars>>

\* the request ends and the call hands control back
Return(method) ==
    /\ w_pc = "inflight"
    /\ w_call[1].method = method
    /\ \E answer \in Answers :
        /\ w_call' = <<[method |-> method, answer |-> <<answer>>]>>
        /\ w_trace' = w_trace \o FinishCall(method, answer)
    /\ w_pc' = "idle"
    /\ UNCHANGED <<w_calls, w_requests, cliVars, fnVars>>

APIClientGet == Call("get")
APIClientGetReturn == Return("get")
APIClientPost == Call("post")
APIClientPostReturn == Return("post")

\* close(): lines 36-37; a closed client is not called again
APIClientClose ==
    /\ w_pc = "idle"
    /\ w_pc' = "closed"
    /\ UNCHANGED <<w_call, w_calls, w_requests, w_trace, cliVars, fnVars>>

NextWrap ==
    \/ APIClientGet
    \/ APIClientGetReturn
    \/ APIClientPost
    \/ APIClientPostReturn
    \/ APIClientClose

SpecWrap == InitWrap /\ [][NextWrap]_vars

----------------------------------------------------------------------------
(* Properties of the transport wrapper. *)

\* the positions of the events of a kind in the trace
Events(ev) == {i \in 1..Len(w_trace) : w_trace[i].ev = ev}

\* the events of the last call, from its entry on
LastCall ==
    LET start == CHOOSE i \in Events("call") : \A j \in Events("call") : j <= i
    IN  SubSeq(w_trace, start, Len(w_trace))

CallFinished == w_call /= <<>> /\ w_call[1].answer /= <<>>

\* C9: every call of get or post issues exactly one request.  A call whose request
\* met a non-2xx status or did not complete prints one diagnostic and then raises
\* the error of that kind: it neither returns a result nor issues another request.
\* A call whose request succeeded prints nothing and returns the response.
C9_WrapperContract ==
    /\ w_requests = w_calls
    /\ Cardinality(Events("request")) = Cardinality(Events("call"))
    /\ CallFinished =>
        LET answer == w_call[1].answer[1]
            failed == answer.kind = "transport_error" \/ ~IsSuccess(answer.status)
            error == IF answer.kind = "transport_error" THEN "RequestError"
                     ELSE "HTTPStatusError"
        IN  /\ Len(LastCall) >= 2
            /\ LastCall[2].ev = "request"
            /\ failed =>
                    /\ Len(LastCall) = 4
                    /\ LastCall[3].ev = "diagnostic"
                    /\ LastCall[4] = Event("raise", <<error>>)
            /\ ~failed =>
                    /\ Len(LastCall) = 3
                    /\ LastCall[3] = Event("return", <<"response">>)

\* a second call failed on a status after the first had failed on the transport
C9_Witness ==
    /\ CallFinished /\ w_calls = 2 /\ w_pc = "idle"
    /\ w_call[1].answer[1].kind = "response" /\ w_call[1].answer[1].status = 404
    /\ Cardinality(Events("diagnostic")) = 2
    /\ LastCall[4].ev = "raise"

====
